---- MODULE Spec2Model ----
(***************************************************************************)
(* Link-mode resolver of the hover editor plugin (src/src/main.ts):        *)
(* the patched page-preview onLinkHover classifies the hovered link text,  *)
(* reads the presentation mode configured for that kind of link, and then  *)
(* either passes the hover through to the host, or runs handleHover, at    *)
(* once or from a setTimeout callback.                                     *)
(*                                                                         *)
(* Strings are sequences of one-character strings.  Time is counted in     *)
(* ticks; a timer may fire at any moment from the tick its delay ends.     *)
(*                                                                         *)
(* The sidebar preview manager (openFileInSidebar), the loading of the     *)
(* settings, the per-window interaction adapter, the popovers (spawn,      *)
(* convert, dock, pin, hide) and the patched changeLayout / iterateLeaves  *)
(* have specifications of their own over the same state.                   *)
(***************************************************************************)
EXTENDS Integers, Sequences, FiniteSets, TLC

VARIABLES
    settings,            \* plugin.settings
    hovers,              \* the hover events handled so far
    timers,              \* pending trigger-delay timers
    currentSidebarLeaf,  \* plugin.currentSidebarLeaf
    leaves,              \* the host's panes
    activeLeaf,          \* workspace.activeLeaf
    opens,               \* the openFileInSidebar calls made so far
    persisted,           \* the record kept by loadData / saveData
    defaultSettings,     \* the DEFAULT_SETTINGS object
    windows,             \* the Interactor of each window
    popovers,            \* the HoverEditor popovers created so far
    activePopover,       \* HoverEditor.activePopover
    layout,              \* layoutChanging and the changeLayout calls in flight
    adapterRefs          \* popovers subscribed to the window's adapter

hoverVars == <<hovers, timers>>

sidebarVars == <<currentSidebarLeaf, leaves, activeLeaf, opens>>

lifeVars == <<persisted, defaultSettings, windows>>

popVars == <<popovers, activePopover, layout, adapterRefs>>

vars == <<settings, hovers, timers, currentSidebarLeaf, leaves, activeLeaf, opens,
          persisted, defaultSettings, windows, popovers, activePopover, layout,
          adapterRefs>>

(* ------------------------------ bounds --------------------------------- *)

\* longest link text drawn in the classification specification
MaxLen == 4
\* largest trigger delay, in ticks
MaxDelay == 2
\* number of hover events of one behaviour
MaxHovers == 2
\* number of openFileInSidebar calls of one behaviour
MaxOpens == 2
\* number of popovers created in one behaviour
MaxPopovers == 2
\* number of changeLayout calls in progress at one time
MaxCalls == 2

(* ------------------------------ strings -------------------------------- *)

Alphabet == {"!", "#", "^", "[", "a"}

LinkTexts == UNION {[1..n -> Alphabet] : n \in 0..MaxLen}

\* String.prototype.startsWith
startsWith(s, prefix) ==
    /\ Len(s) >= Len(prefix)
    /\ \A i \in 1..Len(prefix) : s[i] = prefix[i]

\* String.prototype.indexOf for a one-character needle; 0 when absent
\* (positions are 1-based here).
indexOf(s, c) ==
    IF \E i \in 1..Len(s) : s[i] = c
    THEN CHOOSE i \in 1..Len(s) : s[i] = c /\ \A j \in 1..(i - 1) : s[j] # c
    ELSE 0

\* obsidian's parseLinktext: the link text is cut at its first "#"; the
\* subpath keeps the "#", and is empty when the link text has none.
parseLinktext(linkText) ==
    LET i == indexOf(linkText, "#") IN
    IF i = 0
    THEN [path |-> linkText, subpath |-> <<>>]
    ELSE [path |-> SubSeq(linkText, 1, i - 1),
          subpath |-> SubSeq(linkText, i, Len(linkText))]

(* ------------------------------ settings ------------------------------- *)

Modes == {"native", "floating", "sidebar"}

ModeKeys == {"regularLinks", "footnotes", "headings", "blocks", "hoverEmbeds"}

TriggerDelays == 0..MaxDelay

DEFAULT_SETTINGS ==
    [regularLinks |-> "sidebar", defaultMode |-> "match", autoPin |-> "onMove",
     triggerDelay |-> 300, closeDelay |-> 600, autoFocus |-> TRUE,
     rollDown |-> FALSE, snapToEdges |-> FALSE, initialHeight |-> "340px",
     initialWidth |-> "400px", showViewHeader |-> FALSE, imageZoom |-> TRUE,
     footnotes |-> "native", headings |-> "sidebar", blocks |-> "floating",
     hoverEmbeds |-> "sidebar", sidebarAutoFocus |-> FALSE,
     sidebarPosition |-> "right", sidebarAutoReveal |-> TRUE]

SettingKeys == DOMAIN DEFAULT_SETTINGS

\* loadData() of a fresh install: null
NoData == <<>>

\* Object.assign(target, source): the keys of source are written over
\* target; a null source writes nothing.
ObjectAssign(target, source) ==
    [k \in (DOMAIN target) \cup (DOMAIN source) |->
        IF k \in DOMAIN source THEN source[k] ELSE target[k]]

\* Persisted per-link-type modes the plugin is started with: the defaults
\* and three records saved from the settings tab.  Every key has every
\* mode in one of them and no two keys agree in all of them.
LoadedModes ==
    { [k \in ModeKeys |-> DEFAULT_SETTINGS[k]],
      [regularLinks |-> "native", footnotes |-> "native", headings |-> "floating",
       blocks |-> "floating", hoverEmbeds |-> "sidebar"],
      [regularLinks |-> "floating", footnotes |-> "sidebar", headings |-> "native",
       blocks |-> "native", hoverEmbeds |-> "floating"],
      [regularLinks |-> "native", footnotes |-> "floating", headings |-> "sidebar",
       blocks |-> "sidebar", hoverEmbeds |-> "native"] }

\* Variant of loadSettings that assigns into the default table itself:
\* Object.assign(DEFAULT_SETTINGS, data).
loadSettings_IntoDefaults(defaults, data) ==
    [settings |-> ObjectAssign(defaults, data),
     defaults |-> ObjectAssign(defaults, data)]

\* loadSettings: this.settings = Object.assign({}, DEFAULT_SETTINGS, data),
\* data the record returned by loadData().  Yields the new settings and the
\* default table as the call leaves it.
loadSettings(defaults, data) ==
    [settings |-> ObjectAssign(ObjectAssign(<<>>, defaults), data),
     defaults |-> defaults]

\* The record on disk that holds the given modes and trigger delay.
SavedRecord(modes, delay) == ("triggerDelay" :> delay) @@ modes

(* --------------------------- classification ---------------------------- *)

\* Variants of the if-chain with one plausible slip each: the embed marker
\* tested before the subpath; the block branch missing; a heading needing
\* text after its "#"; the embed marker looked for anywhere in the text.
LinkKind_EmbedFirst(linkText) ==
    LET subpath == parseLinktext(linkText).subpath IN
    IF startsWith(linkText, <<"!">>) THEN "hoverEmbeds"
    ELSE IF subpath # <<>> /\ subpath[1] = "#"
    THEN IF startsWith(subpath, <<"#", "[", "^">>) THEN "footnotes"
         ELSE IF startsWith(subpath, <<"#", "^">>) THEN "blocks"
         ELSE "headings"
    ELSE "regularLinks"

LinkKind_NoBlockBranch(linkText) ==
    LET subpath == parseLinktext(linkText).subpath IN
    IF subpath # <<>> /\ subpath[1] = "#"
    THEN IF startsWith(subpath, <<"#", "[", "^">>) THEN "footnotes"
         ELSE "headings"
    ELSE IF startsWith(linkText, <<"!">>) THEN "hoverEmbeds"
         ELSE "regularLinks"

LinkKind_BareHashIsNoHeading(linkText) ==
    LET subpath == parseLinktext(linkText).subpath IN
    IF Len(subpath) > 1 /\ subpath[1] = "#"
    THEN IF startsWith(subpath, <<"#", "[", "^">>) THEN "footnotes"
         ELSE IF startsWith(subpath, <<"#", "^">>) THEN "blocks"
         ELSE "headings"
    ELSE IF startsWith(linkText, <<"!">>) THEN "hoverEmbeds"
         ELSE "regularLinks"

LinkKind_EmbedAnywhere(linkText) ==
    LET subpath == parseLinktext(linkText).subpath IN
    IF subpath # <<>> /\ subpath[1] = "#"
    THEN IF startsWith(subpath, <<"#", "[", "^">>) THEN "footnotes"
         ELSE IF startsWith(subpath, <<"#", "^">>) THEN "blocks"
         ELSE "headings"
    ELSE IF indexOf(linkText, "!") # 0 THEN "hoverEmbeds"
         ELSE "regularLinks"

\* The settings key read by the patched onLinkHover for a link text: the
\* branch taken by its if-chain.
LinkKind(linkText) ==
    LET subpath == parseLinktext(linkText).subpath IN
    IF subpath # <<>> /\ subpath[1] = "#"
    THEN IF startsWith(subpath, <<"#", "[", "^">>) THEN "footnotes"
         ELSE IF startsWith(subpath, <<"#", "^">>) THEN "blocks"
         ELSE "headings"
    ELSE IF startsWith(linkText, <<"!">>) THEN "hoverEmbeds"
         ELSE "regularLinks"

\* mode = plugin.settings[<key>]
ResolveMode(s, linkText) == s[LinkKind(linkText)]

(* ------------------------------ the host ------------------------------- *)

NoFile == "null"

\* metadataCache.getFirstLinkpathDest(linkpath, sourcePath): note "a" is
\* found from every source file; "c" is a path relative to the folder of
\* the source file and exists only next to "d/x"; nothing else exists.
getFirstLinkpathDest(linkpath, sourcePath) ==
    IF linkpath = <<"a">> THEN "a.md"
    ELSE IF linkpath = <<"c">> /\ sourcePath = "d/x" THEN "d/c.md"
    ELSE NoFile

\* The link elements of the open documents: each has a link text and lives
\* in a source file.
Targets == {"t1", "t2", "t3", "t4"}

LinkTextOf(t) ==
    CASE t = "t1" -> <<"a">>
      [] t = "t2" -> <<"a", "#", "^", "a">>
      [] t = "t3" -> <<"c", "#", "a">>
      [] t = "t4" -> <<"c">>

SourcePathOf(t) == IF t = "t4" THEN "d/x" ELSE "x"

(* ------------------------- panes and windows --------------------------- *)

\* A pane is named by where it is and a number there.
NoLeaf == <<"none", 0>>

\* no view mode: the pane's view has no getMode()
NoMode == "none"

MainLeaves == {<<"main", 1>>, <<"main", 2>>}

\* The panes a sidebar can hold: number 0 is there when the layout is ready
\* (if the sidebar is not empty), the others are panes the host can create,
\* one for every openFileInSidebar call.
SideLeaves(side) == {<<side, n>> : n \in 0..MaxOpens}

\* the panes attachLeaf creates, one for every popover
PopLeaves == {<<"pop", n>> : n \in 1..MaxPopovers}

\* the panes the host puts into the main area when its last pane leaves it
SpareLeaves == {<<"spare", n>> : n \in 1..MaxPopovers}

LeafIds ==
    MainLeaves \cup SideLeaves("left") \cup SideLeaves("right") \cup PopLeaves
        \cup SpareLeaves

\* What a pane is a child of: the tab group of the main area, a sidebar, the
\* split of popover p, or nothing (detached).
Root == <<"root", 0>>

Dock(side) == <<"dock-" \o side, 0>>

SplitOf(p) == <<"popover", p>>

NoParent == <<"none", 0>>

SideOf(l) == l[1]

FreshLeaf ==
    [exists |-> FALSE, disposed |-> FALSE, file |-> NoFile, mode |-> NoMode,
     eState |-> <<>>, revealed |-> FALSE, parent |-> NoParent,
     docked |-> FALSE]

\* The layout when it is ready: an editor (source mode) and a view without
\* mode in the main area, and the given panes in the sidebars.
InitialLeaves(inSidebars) ==
    [l \in LeafIds |->
        IF l = <<"main", 1>>
        THEN [FreshLeaf EXCEPT !.exists = TRUE, !.file = "x", !.mode = "source",
                               !.parent = Root]
        ELSE IF l = <<"main", 2>>
        THEN [FreshLeaf EXCEPT !.exists = TRUE, !.parent = Root]
        ELSE IF l \in inSidebars
        THEN [FreshLeaf EXCEPT !.exists = TRUE, !.parent = Dock(SideOf(l))]
        ELSE FreshLeaf]

Windows == {"main", "popout1", "popout2"}

\* no Interactor has been made for the window
NoInteractor == [none |-> TRUE]

(* --------------------------- hover dispatch ---------------------------- *)

\* old.call(this, parent, targetEl, linkText, path, state, ...args)
OldCall(targetEl, linkText, path) ==
    [fn |-> "old", args |-> <<targetEl, linkText, path>>]

\* plugin.openFileInSidebar(file, linkText, state)
SidebarCall(file, linkText) ==
    [fn |-> "openFileInSidebar", args |-> <<file, linkText>>]

\* onLinkHover(plugin, parent, targetEl, linkText, path, state, ...args)
FloatingCall(targetEl, linkText, path) ==
    [fn |-> "onLinkHover", args |-> <<targetEl, linkText, path>>]

\* Variants of handleHover with one slip each: an unresolved link dropped;
\* the sidebar branch falling through to the floating handler; the floating
\* branch missing.
handleHover_DropUnresolved(targetEl, linkText, path, mode) ==
    LET file == getFirstLinkpathDest(parseLinktext(linkText).path, path) IN
    IF file = NoFile THEN <<>>
    ELSE IF mode = "sidebar" THEN <<SidebarCall(file, linkText)>>
    ELSE <<FloatingCall(targetEl, linkText, path)>>

handleHover_SidebarFallsThrough(targetEl, linkText, path, mode) ==
    LET file == getFirstLinkpathDest(parseLinktext(linkText).path, path) IN
    IF file = NoFile THEN <<OldCall(targetEl, linkText, path)>>
    ELSE IF mode = "sidebar"
    THEN <<SidebarCall(file, linkText), FloatingCall(targetEl, linkText, path)>>
    ELSE <<FloatingCall(targetEl, linkText, path)>>

handleHover_NoFloatingBranch(targetEl, linkText, path, mode) ==
    LET file == getFirstLinkpathDest(parseLinktext(linkText).path, path) IN
    IF file = NoFile THEN <<OldCall(targetEl, linkText, path)>>
    ELSE IF mode = "sidebar" THEN <<SidebarCall(file, linkText)>>
    ELSE <<>>

\* The calls made by one run of the handleHover closure.
handleHover(targetEl, linkText, path, mode) ==
    LET file == getFirstLinkpathDest(parseLinktext(linkText).path, path) IN
    IF file = NoFile THEN <<OldCall(targetEl, linkText, path)>>
    ELSE IF mode = "sidebar" THEN <<SidebarCall(file, linkText)>>
    ELSE <<FloatingCall(targetEl, linkText, path)>>

\* Variants of the scheduling: the delay left out of the setTimeout call; one
\* shared timer, a new hover clearing the pending one.
setTimeout_NoDelay(pending, id, delay) ==
    pending \cup {[hover |-> id, remaining |-> 0]}

setTimeout_SharedTimer(pending, id, delay) ==
    {[hover |-> id, remaining |-> delay]}

\* setTimeout(handleHover, delay): one more pending timer, for hover `id`.
setTimeout(pending, id, delay) ==
    pending \cup {[hover |-> id, remaining |-> delay]}

\* Variant of the patched onLinkHover without the early return for the
\* native mode: a native hover goes through the trigger delay and handleHover.
PatchedOnLinkHover_NoNativeReturn(targetEl, linkText, path) ==
    LET kind == LinkKind(linkText)
        mode == ResolveMode(settings, linkText)
        id == Len(hovers) + 1
        h == [targetEl |-> targetEl, linkText |-> linkText, path |-> path,
              kind |-> kind, mode |-> mode, delay |-> settings.triggerDelay,
              age |-> 0, ran |-> FALSE, calls |-> <<>>]
    IN
    /\ UNCHANGED settings
    /\ IF settings.triggerDelay > 0
       THEN /\ hovers' = Append(hovers, h)
            /\ timers' = setTimeout(timers, id, settings.triggerDelay)
       ELSE /\ hovers' = Append(hovers,
                   [h EXCEPT !.ran = TRUE,
                             !.calls = handleHover(targetEl, linkText, path, mode)])
            /\ UNCHANGED timers

\* The patched onLinkHover, called by the host for one hover event.
PatchedOnLinkHover(targetEl, linkText, path) ==
    LET kind == LinkKind(linkText)
        mode == ResolveMode(settings, linkText)
        id == Len(hovers) + 1
        h == [targetEl |-> targetEl, linkText |-> linkText, path |-> path,
              kind |-> kind, mode |-> mode, delay |-> 0, age |-> 0,
              ran |-> FALSE, calls |-> <<>>]
    IN
    /\ UNCHANGED settings
    /\ IF mode = "native"
       THEN /\ hovers' = Append(hovers,
                   [h EXCEPT !.calls = <<OldCall(targetEl, linkText, path)>>])
            /\ UNCHANGED timers
       ELSE IF settings.triggerDelay > 0
       THEN /\ hovers' = Append(hovers, [h EXCEPT !.delay = settings.triggerDelay])
            /\ timers' = setTimeout(timers, id, settings.triggerDelay)
       ELSE /\ hovers' = Append(hovers,
                   [h EXCEPT !.delay = settings.triggerDelay, !.ran = TRUE,
                             !.calls = handleHover(targetEl, linkText, path, mode)])
            /\ UNCHANGED timers

\* A pending timer may fire once its delay has passed.
Due(t) == t.remaining = 0

\* Variant of the timer callback that reads the mode of the link type from
\* the settings when it runs.
FireTimer_ReadsSettings(t) ==
    /\ t \in timers
    /\ Due(t)
    /\ timers' = timers \ {t}
    /\ hovers' = [hovers EXCEPT ![t.hover] =
            [@ EXCEPT !.ran = TRUE,
                      !.calls = @ \o handleHover(hovers[t.hover].targetEl,
                                                 hovers[t.hover].linkText,
                                                 hovers[t.hover].path,
                                                 ResolveMode(settings,
                                                     hovers[t.hover].linkText))]]
    /\ UNCHANGED settings

\* The event loop runs the callback of a due timer: handleHover.
FireTimer(t) ==
    /\ t \in timers
    /\ Due(t)
    /\ timers' = timers \ {t}
    /\ hovers' = [hovers EXCEPT ![t.hover] =
            [@ EXCEPT !.ran = TRUE,
                      !.calls = @ \o handleHover(hovers[t.hover].targetEl,
                                                 hovers[t.hover].linkText,
                                                 hovers[t.hover].path,
                                                 hovers[t.hover].mode)]]
    /\ UNCHANGED settings

Pending(i) == \E t \in timers : t.hover = i

\* One tick of time passes: every pending timer is one tick nearer, every
\* waiting hover one tick older (counted up to the delay it waits for).
Tick ==
    /\ timers' = {[t EXCEPT !.remaining = IF @ > 0 THEN @ - 1 ELSE 0] : t \in timers}
    /\ hovers' = [i \in 1..Len(hovers) |->
            IF Pending(i) /\ hovers[i].age < hovers[i].delay
            THEN [hovers[i] EXCEPT !.age = @ + 1]
            ELSE hovers[i]]
    /\ UNCHANGED <<settings, sidebarVars, lifeVars, popVars>>

\* saveSettings: saveData(this.settings)
saveSettings(s) == s

\* Settings tab, "Trigger Delay (ms)": triggerDelay = Number(value), then
\* saveSettings().
SetTriggerDelay(d) ==
    /\ d # settings.triggerDelay
    /\ settings' = [settings EXCEPT !.triggerDelay = d]
    /\ persisted' = saveSettings(settings')
    /\ UNCHANGED <<hovers, timers, sidebarVars, defaultSettings, windows, popVars>>

(* --------------------------- specifications ---------------------------- *)

\* no popover yet, no layout change in progress
InitPopovers ==
    /\ popovers = <<>>
    /\ activePopover = 0
    /\ layout = [changing |-> FALSE, calls |-> 0, threw |-> FALSE, visited |-> {}]
    /\ adapterRefs = 0

\* The panes, the sidebar bookkeeping and the windows as they are when the
\* layout is ready and nothing has been opened in the sidebar.
InitHost ==
    /\ InitPopovers
    /\ currentSidebarLeaf = NoLeaf
    /\ leaves = InitialLeaves({<<"left", 0>>, <<"right", 0>>})
    /\ activeLeaf = <<"main", 1>>
    /\ opens = <<>>
    /\ defaultSettings = DEFAULT_SETTINGS
    /\ windows = [w \in Windows |-> NoInteractor]

Init ==
    /\ \E modes \in LoadedModes, d \in TriggerDelays :
            /\ persisted = SavedRecord(modes, d)
            /\ settings = loadSettings(DEFAULT_SETTINGS, persisted).settings
    /\ hovers = <<>>
    /\ timers = {}
    /\ InitHost

Hover ==
    /\ Len(hovers) < MaxHovers
    /\ \E t \in Targets : PatchedOnLinkHover(t, LinkTextOf(t), SourcePathOf(t))
    /\ UNCHANGED <<sidebarVars, lifeVars, popVars>>

Fire ==
    /\ \E t \in timers : FireTimer(t)
    /\ UNCHANGED <<sidebarVars, lifeVars, popVars>>

ChangeDelay == \E d \in TriggerDelays : SetTriggerDelay(d)

Next == Hover \/ Fire \/ Tick \/ ChangeDelay

Spec == Init /\ [][Next]_vars

\* Hovers under settings that stay as loaded: the event loop runs every due
\* timer and time does not stop.
NextFair == Hover \/ Fire \/ Tick

FairSpec == Init /\ [][NextFair]_vars /\ WF_vars(Tick) /\ WF_vars(Fire)

\* Classification alone: one hover with any link text, handled at once.
InitClassify ==
    /\ \E modes \in LoadedModes :
            /\ persisted = SavedRecord(modes, 0)
            /\ settings = loadSettings(DEFAULT_SETTINGS, persisted).settings
    /\ hovers = <<>>
    /\ timers = {}
    /\ InitHost

HoverAny ==
    /\ hovers = <<>>
    /\ \E lt \in LinkTexts, p \in {"x", "d/x"} : PatchedOnLinkHover("t1", lt, p)
    /\ UNCHANGED <<sidebarVars, lifeVars, popVars>>

NextClassify == HoverAny

SpecClassify == InitClassify /\ [][NextClassify]_vars

(* --------------------- settings and window lifecycle ------------------- *)

\* this.settings before loadSettings has run
NoSettings == [undefined |-> TRUE]

NoError == "none"

\* what interact.removeDocument can throw
Errors == {"TypeError", "Error"}

\* Values found on disk for some of the keys; any subset of these keys may
\* be present in the record.
PersistedWith(R, k, values) == R \cup {(k :> v) @@ r : r \in R, v \in values}

PersistedRecords ==
    PersistedWith(
      PersistedWith(
        PersistedWith(
          PersistedWith(
            PersistedWith({NoData}, "regularLinks", {"native", "floating"}),
            "triggerDelay", TriggerDelays),
          "sidebarPosition", {"left"}),
        "defaultMode", {"source", "preview"}),
      "sidebarAutoFocus", {TRUE})

\* onload: await this.loadSettings()
LoadSettings ==
    /\ settings = NoSettings
    /\ LET r == loadSettings(defaultSettings, persisted) IN
          /\ settings' = r.settings
          /\ defaultSettings' = r.defaults
    /\ UNCHANGED <<hoverVars, sidebarVars, persisted, windows, popVars>>

\* Interactor.onload: the resize listener is added; the interactor made
\* for the window holds the window's document.
InteractorOnload(w) ==
    /\ windows[w] = NoInteractor
    /\ windows' = [windows EXCEPT ![w] =
            [resizeListener |-> TRUE, document |-> TRUE, unloaded |-> FALSE,
             console |-> <<>>, thrown |-> NoError, propagated |-> NoError,
             listenerAtThrow |-> FALSE]]
    /\ UNCHANGED <<settings, hoverVars, sidebarVars, persisted, defaultSettings, popVars>>

\* Variant of onunload without the try/catch, the document removed first.
onunload_Unguarded(i, thrown) ==
    IF thrown = NoError
    THEN [i EXCEPT !.document = FALSE, !.resizeListener = FALSE, !.unloaded = TRUE]
    ELSE [i EXCEPT !.thrown = thrown, !.propagated = thrown,
                   !.listenerAtThrow = i.resizeListener]

\* Interactor.onunload, with what removeDocument throws (NoError: nothing):
\* the listener is removed, then removeDocument is tried and its error
\* logged.
onunload(i, thrown) ==
    LET i1 == [i EXCEPT !.resizeListener = FALSE] IN
    IF thrown = NoError
    THEN [i1 EXCEPT !.document = FALSE, !.unloaded = TRUE]
    ELSE [i1 EXCEPT !.thrown = thrown, !.listenerAtThrow = i1.resizeListener,
                    !.console = Append(@, thrown), !.unloaded = TRUE]

InteractorOnunload(w, thrown) ==
    /\ windows[w] # NoInteractor
    /\ ~windows[w].unloaded
    /\ windows[w].thrown = NoError
    /\ windows' = [windows EXCEPT ![w] = onunload(@, thrown)]
    /\ UNCHANGED <<settings, hoverVars, sidebarVars, persisted, defaultSettings, popVars>>

InitLife ==
    /\ settings = NoSettings
    /\ persisted \in PersistedRecords
    /\ hovers = <<>>
    /\ timers = {}
    /\ InitHost

WindowOpens == \E w \in Windows : InteractorOnload(w)

WindowCloses == \E w \in Windows, e \in Errors \cup {NoError} : InteractorOnunload(w, e)

SettingsTabDelay == settings # NoSettings /\ \E d \in TriggerDelays : SetTriggerDelay(d)

NextLife == LoadSettings \/ WindowOpens \/ WindowCloses \/ SettingsTabDelay

SpecLife == InitLife /\ [][NextLife]_vars

(* ------------------------- the sidebar preview -------------------------- *)

\* JavaScript's undefined as the value of an ephemeral-state key; the other
\* values of these keys are non-empty strings and locations.
Undefined == <<>>

\* the optional state argument of openFileInSidebar left out
NoState == <<>>

\* resolveSubpath returning null
NoLoc == [none |-> TRUE]

\* String.prototype.includes for a one-character needle
includes(s, c) == \E i \in 1..Len(s) : s[i] = c

\* s.split("#")[1] for a string that includes "#": what lies between the
\* first "#" and the next one (or the end of the string).
splitSecond(s) ==
    LET rest == SubSeq(s, indexOf(s, "#") + 1, Len(s))
        j == indexOf(rest, "#")
    IN  IF j = 0 THEN rest ELSE SubSeq(rest, 1, j - 1)

\* metadataCache.getFileCache(file): "a.md" is indexed, "d/c.md" is not
\* (getFileCache returns null for it).
HasCache(file) == file = "a.md"

\* obsidian's resolveSubpath on the cache of the file: "a.md" has a heading
\* "a" in line 1 with a heading "b" below it in line 5, and a block "^a"
\* in lines 3 to 4.  The empty subpath resolves to nothing.
resolveSubpath(file, subpath) ==
    IF file = "a.md" /\ subpath \in {<<"a">>, <<"#", "a">>}
    THEN [start |-> [line |-> 1], end |-> [line |-> 1]]
    ELSE IF file = "a.md" /\ subpath \in {<<"a", "#", "b">>, <<"#", "a", "#", "b">>}
    THEN [start |-> [line |-> 5], end |-> [line |-> 5]]
    ELSE IF file = "a.md" /\ subpath \in {<<"^", "a">>, <<"#", "^", "a">>}
    THEN [start |-> [line |-> 3], end |-> [line |-> 4]]
    ELSE NoLoc

\* buildEphemeralState of the source: the hint is taken from the link text
\* with split("#")[1], the keys of the state argument are spread over it,
\* and the location keys are written when the subpath resolved.
buildEphemeralState(file, linktext, oldState) ==
    LET subpath == IF includes(linktext, "#") THEN splitSecond(linktext) ELSE <<>>
        resolved == IF HasCache(file) THEN resolveSubpath(file, subpath) ELSE NoLoc
        eState == ObjectAssign(
                      [subpath |-> IF subpath # <<>> THEN <<"#">> \o subpath
                                                     ELSE Undefined],
                      oldState)
    IN  IF resolved # NoLoc
        THEN ObjectAssign(eState, [line |-> resolved.start.line,
                                   startLoc |-> resolved.start,
                                   endLoc |-> resolved.end])
        ELSE eState

\* Variant of getViewMode that does not ask the active view: "match" gives
\* preview.
getViewMode_IgnoresActive(defaultMode, activeMode) ==
    IF defaultMode = "match" THEN "preview" ELSE defaultMode

\* getViewMode: the default mode of the settings; "match" is the mode of
\* the active view, preview when there is no active view or it has no mode.
getViewMode(defaultMode, activeMode) ==
    IF defaultMode = "match"
    THEN IF activeMode # NoMode THEN activeMode ELSE "preview"
    ELSE defaultMode

\* workspace.getActiveViewOfType(ItemView)?.getMode?.() of the host
ActiveMode == IF activeLeaf = NoLeaf THEN NoMode ELSE leaves[activeLeaf].mode

\* the panes of a sidebar that are open
LiveLeaves(lvs, side) ==
    {l \in SideLeaves(side) : lvs[l].exists /\ ~lvs[l].disposed}

\* the pane getLeftLeaf(true) / getRightLeaf(true) creates
NewLeaf(lvs, side) ==
    CHOOSE l \in SideLeaves(side) :
        /\ ~lvs[l].exists
        /\ \A k \in SideLeaves(side) : ~lvs[k].exists => l[2] <= k[2]

\* Variant of the pane acquisition that has the host create a pane on every
\* call, whether or not the tracked pane is still open.
SidebarLeafChoices_NeverReuse(tracked, lvs, position) ==
    {NewLeaf(lvs, IF position = "left" THEN "left" ELSE "right")}

\* Variant of the pane acquisition that always takes the right sidebar.
SidebarLeafChoices_AlwaysRight(tracked, lvs, position) ==
    IF tracked = NoLeaf \/ lvs[tracked].disposed
    THEN IF LiveLeaves(lvs, "right") # {} THEN LiveLeaves(lvs, "right")
         ELSE {NewLeaf(lvs, "right")}
    ELSE {tracked}

\* The panes openFileInSidebar can go on with: the tracked pane while it is
\* set and not disposed; otherwise getLeftLeaf(false) ?? getLeftLeaf(true)
\* (right for every position but "left"): a pane that is open in that
\* sidebar if there is one, else a pane created there.
SidebarLeafChoices(tracked, lvs, position) ==
    IF tracked = NoLeaf \/ lvs[tracked].disposed
    THEN LET side == IF position = "left" THEN "left" ELSE "right" IN
         IF LiveLeaves(lvs, side) # {} THEN LiveLeaves(lvs, side)
         ELSE {NewLeaf(lvs, side)}
    ELSE {tracked}

\* Variant of the call record in which the 50 ms timer that applies the
\* ephemeral state is set before setViewState is awaited.
NewCall_TimerBeforeLoad(file, linkText, leaf, eState, mode) ==
    [file |-> file, linkText |-> linkText, leaf |-> leaf, eState |-> eState,
     mode |-> mode, awaiting |-> TRUE,
     timer |-> "pending", applied |-> FALSE, revealCalled |-> FALSE,
     focusCalled |-> FALSE, onDisposed |-> {}]

\* One call of openFileInSidebar up to its await: the pane, the ephemeral
\* state and the view mode are fixed, setViewState is in flight and no
\* timer is set.  applied, revealCalled, focusCalled and onDisposed record
\* the calls made on the pane afterwards.
NewCall(file, linkText, leaf, eState, mode) ==
    [file |-> file, linkText |-> linkText, leaf |-> leaf, eState |-> eState,
     mode |-> mode, awaiting |-> TRUE,
     timer |-> "none", applied |-> FALSE, revealCalled |-> FALSE,
     focusCalled |-> FALSE, onDisposed |-> {}]

\* openFileInSidebar up to the await of setViewState.
OpenFileInSidebar(file, linkText, state) ==
    /\ Len(opens) < MaxOpens
    /\ \E leaf \in SidebarLeafChoices(currentSidebarLeaf, leaves,
                                      settings.sidebarPosition) :
          /\ currentSidebarLeaf' = leaf
          /\ leaves' = [leaves EXCEPT ![leaf].exists = TRUE,
                                      ![leaf].parent = Dock(SideOf(leaf))]
          /\ opens' = Append(opens,
                 NewCall(file, linkText, leaf,
                         buildEphemeralState(file, linkText, state),
                         getViewMode(settings.defaultMode, ActiveMode)))
    /\ UNCHANGED <<settings, activeLeaf, hoverVars, lifeVars, popVars>>

\* Variant of the code after the await in which setActiveLeaf is nested
\* under the sidebarAutoReveal test.
AfterLoad_FocusUnderReveal(c, s, disposed) ==
    LET reveal == s.sidebarAutoReveal
        focus == s.sidebarAutoReveal /\ s.sidebarAutoFocus
    IN  [c EXCEPT !.awaiting = FALSE, !.timer = "pending",
                  !.revealCalled = reveal, !.focusCalled = focus,
                  !.onDisposed = IF disposed
                                 THEN {f \in {"revealLeaf", "setActiveLeaf"} :
                                          \/ f = "revealLeaf" /\ reveal
                                          \/ f = "setActiveLeaf" /\ focus}
                                 ELSE {}]

\* openFileInSidebar after the await: the 50 ms timer is set, revealLeaf is
\* called if sidebarAutoReveal and setActiveLeaf if sidebarAutoFocus (the
\* settings are read now); neither call looks at leaf.disposed.
AfterLoad(c, s, disposed) ==
    LET reveal == s.sidebarAutoReveal
        focus == s.sidebarAutoFocus
    IN  [c EXCEPT !.awaiting = FALSE, !.timer = "pending",
                  !.revealCalled = reveal, !.focusCalled = focus,
                  !.onDisposed = IF disposed
                                 THEN {f \in {"revealLeaf", "setActiveLeaf"} :
                                          \/ f = "revealLeaf" /\ reveal
                                          \/ f = "setActiveLeaf" /\ focus}
                                 ELSE {}]

\* The host completes setViewState of call i (the pane shows the file in
\* the mode and, for active: true, is the active pane) and the call runs
\* to its end.  On a disposed pane the host calls change nothing.
LoadDone(i) ==
    LET c == opens[i]
        disposed == leaves[c.leaf].disposed
        d == AfterLoad(c, settings, disposed)
    IN  /\ c.awaiting
        /\ opens' = [opens EXCEPT ![i] = d]
        /\ leaves' = IF disposed THEN leaves
                     ELSE [leaves EXCEPT ![c.leaf].file = c.file,
                                         ![c.leaf].mode = c.mode,
                                         ![c.leaf].revealed =
                                             @ \/ d.revealCalled]
        /\ activeLeaf' = IF disposed THEN activeLeaf ELSE c.leaf
        /\ UNCHANGED <<settings, currentSidebarLeaf, hoverVars, lifeVars, popVars>>

\* The 50 ms timer of call i fires: setEphemeralState, if the pane is not
\* disposed.
ApplyEphemeral(i) ==
    LET c == opens[i] IN
    /\ c.timer = "pending"
    /\ IF leaves[c.leaf].disposed
       THEN /\ opens' = [opens EXCEPT ![i].timer = "fired"]
            /\ UNCHANGED leaves
       ELSE /\ opens' = [opens EXCEPT ![i].timer = "fired", ![i].applied = TRUE]
            /\ leaves' = [leaves EXCEPT ![c.leaf].eState = c.eState]
    /\ UNCHANGED <<settings, currentSidebarLeaf, activeLeaf, hoverVars, lifeVars, popVars>>

\* The user closes a pane of the sidebar the plugin is configured for; if it
\* was the active pane, no pane is active until the user clicks into one.
DisposeLeaf(l) ==
    /\ leaves[l].exists /\ ~leaves[l].disposed
    /\ leaves' = [leaves EXCEPT ![l].disposed = TRUE]
    /\ activeLeaf' = IF activeLeaf = l THEN NoLeaf ELSE activeLeaf
    /\ UNCHANGED <<settings, currentSidebarLeaf, opens, hoverVars, lifeVars, popVars>>

\* The user clicks into a pane of the main area.
SetActive(l) ==
    /\ activeLeaf # l
    /\ activeLeaf' = l
    /\ UNCHANGED <<settings, currentSidebarLeaf, leaves, opens, hoverVars, lifeVars, popVars>>

\* What is saved of the sidebar settings: every position, both toggles
\* either way and every default view mode.
SidebarRecords ==
    [sidebarPosition : {"left", "right"}, sidebarAutoReveal : BOOLEAN,
     sidebarAutoFocus : BOOLEAN, defaultMode : {"source", "preview", "match"}]

\* What sidebar-mode hovers open here: a heading of an indexed note.
SidebarLinks == { [file |-> "a.md", linkText |-> <<"a", "#", "a">>] }

InitSidebar ==
    /\ \E data \in SidebarRecords :
            /\ persisted = data
            /\ settings = loadSettings(DEFAULT_SETTINGS, data).settings
    /\ leaves = InitialLeaves({<<"left", 0>>, <<"right", 0>>})
    /\ currentSidebarLeaf = NoLeaf
    /\ activeLeaf = <<"main", 1>>
    /\ opens = <<>>
    /\ hovers = <<>>
    /\ timers = {}
    /\ defaultSettings = DEFAULT_SETTINGS
    /\ windows = [w \in Windows |-> NoInteractor]
    /\ InitPopovers

SidebarOpen == \E k \in SidebarLinks : OpenFileInSidebar(k.file, k.linkText, NoState)

SidebarLoadDone == \E i \in 1..Len(opens) : LoadDone(i)

SidebarTimer == \E i \in 1..Len(opens) : ApplyEphemeral(i)

SidebarClosed == \E l \in SideLeaves(settings.sidebarPosition) : DisposeLeaf(l)

UserActivates == \E l \in MainLeaves : SetActive(l)

NextSidebar ==
    SidebarOpen \/ SidebarLoadDone \/ SidebarTimer \/ SidebarClosed \/ UserActivates

SpecSidebar == InitSidebar /\ [][NextSidebar]_vars

\* The link texts buildEphemeralState is tried on: a note, a heading, a
\* block, a heading the note does not have, a heading of the other note and
\* a heading under a heading.
EStateLinkTexts ==
    { <<"a">>, <<"a", "#", "a">>, <<"a", "#", "^", "a">>, <<"a", "#", "b">>,
      <<"c", "#", "a">>, <<"a", "#", "a", "#", "b">> }

EStateFiles == {"a.md", "d/c.md"}

\* the state argument: left out, or the scroll position of a hover parent
OldStates == {NoState, [scroll |-> 2]}

\* one call of openFileInSidebar with any of these arguments
OpenAnyLink ==
    /\ opens = <<>>
    /\ \E file \in EStateFiles, linkText \in EStateLinkTexts, state \in OldStates :
          OpenFileInSidebar(file, linkText, state)

SpecEState == InitSidebar /\ [][OpenAnyLink]_vars

(* ------------------------------ popovers ------------------------------- *)

PopoverStates == {"Showing", "Shown", "FadeOut", "Destroyed"}

\* no popover: HoverEditor.forLeaf and HoverEditor.activePopover undefined
NoPopover == 0

\* The panes, the popovers and what is active, as one value the steps of a
\* handler are applied to in turn.
World ==
    [leaves |-> leaves, popovers |-> popovers, activeLeaf |-> activeLeaf,
     activePopover |-> activePopover, adapterRefs |-> adapterRefs]

\* the state after a handler that ends in world w
Apply(w) ==
    /\ leaves' = w.leaves
    /\ popovers' = w.popovers
    /\ activeLeaf' = w.activeLeaf
    /\ activePopover' = w.activePopover
    /\ adapterRefs' = w.adapterRefs

\* the panes that are children of the split of popover p
PanesOf(w, p) == {l \in DOMAIN w.leaves : w.leaves[l].parent = SplitOf(p)}

\* the panes of the main area
RootPanes(w) == {l \in DOMAIN w.leaves : w.leaves[l].parent = Root}

\* HoverEditor.activePopovers(): the popovers that are not destroyed
ActivePopovers(w) ==
    {p \in 1..Len(w.popovers) : w.popovers[p].state # "Destroyed"}

\* HoverEditor.forLeaf(leaf): the popover whose split the pane is in
forLeaf(w, l) ==
    IF l # NoLeaf /\ w.leaves[l].parent[1] = "popover"
    THEN w.leaves[l].parent[2]
    ELSE NoPopover

\* Variant of hide without the test for a popover that is destroyed already:
\* the adapter subscription is released on every call.
hide_Unguarded(w, p, cause) ==
    [w EXCEPT !.popovers[p].state = "Destroyed",
              !.popovers[p].closeTimer = FALSE,
              !.popovers[p].closedBy = cause,
              !.popovers[p].hiddenAgain = (w.popovers[p].state = "Destroyed"),
              !.adapterRefs = @ - 1,
              !.leaves = [l \in DOMAIN @ |->
                             IF @[l].parent = SplitOf(p)
                             THEN [@[l] EXCEPT !.parent = NoParent, !.disposed = TRUE]
                             ELSE @[l]]]

\* hide(): the popover is destroyed: its timers are dropped, its panes are
\* detached and its subscription to the window's adapter is released.  On a
\* popover that is destroyed already nothing is done (hiddenAgain records
\* that call).
hide(w, p, cause) ==
    IF w.popovers[p].state = "Destroyed"
    THEN [w EXCEPT !.popovers[p].hiddenAgain = TRUE]
    ELSE [w EXCEPT !.popovers[p].state = "Destroyed",
                   !.popovers[p].closeTimer = FALSE,
                        !.popovers[p].closedBy = cause,
                   !.adapterRefs = @ - 1,
                   !.leaves = [l \in DOMAIN @ |->
                                  IF @[l].parent = SplitOf(p)
                                  THEN [@[l] EXCEPT !.parent = NoParent,
                                                    !.disposed = TRUE]
                                  ELSE @[l]]]

RECURSIVE hideEach(_, _, _)
\* hide() on each popover of ps in turn
hideEach(w, ps, cause) ==
    IF ps = {} THEN w
    ELSE LET p == CHOOSE q \in ps : \A r \in ps : q <= r
         IN  hideEach(hide(w, p, cause), ps \ {p}, cause)

\* Variant of the layout-change listener that does not look for popovers
\* that lost their pane.
updateLeaves_NoDetection(w) == w

\* The popovers' layout-change listener: a popover that holds no pane any
\* more is destroyed.
updateLeaves(w) ==
    hideEach(w, {p \in ActivePopovers(w) : PanesOf(w, p) = {}}, "empty")

\* The host after a change of the pane tree: a main area left without a pane
\* gets an empty one, and layout-change is delivered.
onLayoutChange(w) ==
    LET spare == CHOOSE l \in SpareLeaves :
                     /\ ~w.leaves[l].exists
                     /\ \A k \in SpareLeaves : ~w.leaves[k].exists => l[2] <= k[2]
        v == IF RootPanes(w) = {}
             THEN [w EXCEPT !.leaves[spare].exists = TRUE,
                            !.leaves[spare].parent = Root]
             ELSE w
    IN  updateLeaves(v)

\* parent.removeChild(leaf): the pane is a child of nothing
removeChild(w, l) == onLayoutChange([w EXCEPT !.leaves[l].parent = NoParent])

\* parent.insertChild(-1, leaf)
insertChild(w, parent, l) == onLayoutChange([w EXCEPT !.leaves[l].parent = parent])

\* parent.replaceChild(0, leaf): the pane takes the place of the child `old`
replaceChild(w, parent, old, l) ==
    onLayoutChange([w EXCEPT !.leaves[old].parent = NoParent,
                             !.leaves[l].parent = parent])

\* activate(): a pending close timer is cancelled; Showing and FadeOut become
\* Shown.
activate(w, p) ==
    [w EXCEPT !.popovers[p].closeTimer = FALSE,
              !.popovers[p].state = IF @ \in {"Showing", "FadeOut"} THEN "Shown" ELSE @]

\* Variant of the active-leaf-change handler that does not take the marker
\* from the popover that was active.
onActiveLeafChange_KeepsMarker(w, l) ==
    LET hoverEditor == forLeaf(w, l)
        v == [w EXCEPT !.activePopover = hoverEditor]
    IN  IF hoverEditor # NoPopover
        THEN [activate(v, hoverEditor) EXCEPT !.popovers[hoverEditor].isActive = TRUE]
        ELSE v

\* The active-leaf-change handler: the marker is taken from activePopover,
\* activePopover becomes the popover of the pane (none for no pane), and that
\* popover is activated and marked.
onActiveLeafChange(w, l) ==
    LET hoverEditor == forLeaf(w, l)
        u == IF w.activePopover # NoPopover
             THEN [w EXCEPT !.popovers[w.activePopover].isActive = FALSE]
             ELSE w
        v == [u EXCEPT !.activePopover = hoverEditor]
    IN  IF hoverEditor # NoPopover
        THEN [activate(v, hoverEditor) EXCEPT !.popovers[hoverEditor].isActive = TRUE]
        ELSE v

\* workspace.setActiveLeaf(leaf): the pane is the active pane and
\* active-leaf-change is delivered.
setActiveLeaf(w, l) == onActiveLeafChange([w EXCEPT !.activeLeaf = l], l)

\* onShowCallback of a popover: none, setActiveLeaf(newLeaf), or the
\* callback of convertLeafToPopover for a pane
NoCallback == [kind |-> "none", leaf |-> NoLeaf]

FocusCallback == [kind |-> "focus", leaf |-> NoLeaf]

ConvertCallback(l) == [kind |-> "convert", leaf |-> l]

\* new HoverEditor(parent, initiatingEl, plugin, undefined, onShowCallback):
\* a popover that is Showing, not pinned, subscribed to the window's adapter
\* and without a pane.  via, pinnedAtAttach, hiddenAgain and closedBy record
\* how it was created, whether it was pinned when its pane was attached,
\* and how it ended; dragged and unpinned record that its pane was dragged
\* and that the user took the pin off since it was last pinned.
NewHoverEditor(w, via, onShow) ==
    [w EXCEPT !.popovers = Append(@,
                  [state |-> "Showing", pinned |-> FALSE, via |-> via,
                   onShow |-> onShow, showPending |-> TRUE, closeTimer |-> FALSE,
                   isActive |-> FALSE, pinnedAtAttach |-> FALSE,
                   hiddenAgain |-> FALSE, closedBy |-> "none",
                   dragged |-> FALSE, unpinned |-> FALSE]),
              !.adapterRefs = @ + 1]

\* togglePin(value)
togglePin(w, p, value) == [w EXCEPT !.popovers[p].pinned = value]

\* attachLeaf(): a new pane is created in the split of the popover
attachLeaf(w, p) ==
    [w EXCEPT !.leaves[<<"pop", p>>] =
                  [FreshLeaf EXCEPT !.exists = TRUE, !.parent = SplitOf(p)],
              !.popovers[p].pinnedAtAttach = w.popovers[p].pinned]

\* Variant of spawnPopover that does not pin the popover.
spawnPopover_NoPin(w, onShow) ==
    LET p == Len(w.popovers) + 1 IN
    IF w.activeLeaf = NoLeaf THEN w
    ELSE attachLeaf(NewHoverEditor(w, "spawn", onShow), p)

\* spawnPopover: with no active pane parent.containerEl throws; else a
\* popover is created, pinned, and its pane attached.
spawnPopover(w, onShow) ==
    LET p == Len(w.popovers) + 1 IN
    IF w.activeLeaf = NoLeaf THEN w
    ELSE attachLeaf(togglePin(NewHoverEditor(w, "spawn", onShow), p, TRUE), p)

\* the panes a handler can be called on: open and a child of something
LivePanes(w) ==
    {l \in DOMAIN w.leaves :
        w.leaves[l].exists /\ ~w.leaves[l].disposed /\ w.leaves[l].parent # NoParent}

\* Variant of the callback of convertLeafToPopover that loads the file of
\* the pane into the popover's own pane instead of moving the pane.
convertOnShow_Reloads(w, p, oldLeaf) ==
    LET newLeaf == <<"pop", p>> IN
    IF w.leaves[oldLeaf].parent = NoParent THEN w
    ELSE setActiveLeaf(
             [removeChild(w, oldLeaf) EXCEPT
                  !.leaves[newLeaf].file = w.leaves[oldLeaf].file,
                  !.leaves[newLeaf].mode = w.leaves[oldLeaf].mode],
             newLeaf)

\* The callback of convertLeafToPopover, run when popover p is shown: the
\* pane leaves its parent and takes the place of the popover's own pane, and
\* is made active.  If the pane has no parent any more,
\* oldParentSplit.removeChild throws and nothing is done.
convertOnShow(w, p, oldLeaf) ==
    LET newLeaf == <<"pop", p>> IN
    IF w.leaves[oldLeaf].parent = NoParent THEN w
    ELSE setActiveLeaf(
             replaceChild(removeChild(w, oldLeaf), SplitOf(p), newLeaf, oldLeaf),
             oldLeaf)

\* The panes the patched iterateLeaves(rootSplit, cb) can visit first: a pane
\* of the main area if there is one; else, unless the layout is changing, a
\* pane of the first popover that has one.
iterateLeavesFirst(w, layoutChanging) ==
    IF RootPanes(w) # {} THEN RootPanes(w)
    ELSE IF layoutChanging THEN {}
    ELSE LET holding == {p \in ActivePopovers(w) : PanesOf(w, p) # {}} IN
         IF holding = {} THEN {}
         ELSE PanesOf(w, CHOOSE p \in holding : \A q \in holding : p <= q)

\* Variant of dockPopoverToWorkspace without the last two statements: the
\* active pane stays what it was.
dockPopoverToWorkspace_KeepsActive(w, oldLeaf, first) ==
    LET u == removeChild(w, oldLeaf) IN
    IF first = NoLeaf THEN u ELSE insertChild(u, u.leaves[first].parent, oldLeaf)

\* dockPopoverToWorkspace: the pane leaves its parent, is inserted into the
\* parent of the first pane iterateLeaves visits (`first`, NoLeaf if it
\* visits none), activeLeaf is set to null and the pane is made active.
\* docked records that the pane has been docked.
dockPopoverToWorkspace(w, oldLeaf, first) ==
    LET u == removeChild(w, oldLeaf)
        v == IF first = NoLeaf THEN u
             ELSE insertChild(u, u.leaves[first].parent, oldLeaf)
    IN  setActiveLeaf([v EXCEPT !.activeLeaf = NoLeaf,
                                !.leaves[oldLeaf].docked = TRUE], oldLeaf)

\* what the popover actions leave alone
notPopover == <<settings, hoverVars, currentSidebarLeaf, opens, lifeVars, layout>>

\* Command "Open new Hover Editor".
OpenNewPopover ==
    /\ Len(popovers) < MaxPopovers
    /\ Apply(spawnPopover(World, FocusCallback))
    /\ UNCHANGED notPopover

\* "Convert to Hover Editor" on a pane, from the pane menu or the command.
ConvertLeafToPopover(oldLeaf) ==
    /\ Len(popovers) < MaxPopovers
    /\ oldLeaf \in LivePanes(World)
    /\ Apply(spawnPopover(World, ConvertCallback(oldLeaf)))
    /\ UNCHANGED notPopover

\* Popover p is shown: Showing becomes Shown and onShowCallback runs.
ShowPopover(p) ==
    LET c == popovers[p].onShow
        w == [World EXCEPT !.popovers[p].showPending = FALSE,
                           !.popovers[p].state = IF @ = "Showing" THEN "Shown" ELSE @]
    IN  /\ popovers[p].showPending
        /\ popovers[p].state # "Destroyed"
        /\ Apply(CASE c.kind = "convert" -> convertOnShow(w, p, c.leaf)
                   [] c.kind = "focus" -> setActiveLeaf(w, <<"pop", p>>)
                   [] OTHER -> w)
        /\ UNCHANGED notPopover

\* "Dock Hover Editor to workspace" on a pane that is in a popover.
DockPopoverToWorkspace(oldLeaf) ==
    LET after == removeChild(World, oldLeaf)
        firsts == iterateLeavesFirst(after, layout.changing)
    IN  /\ oldLeaf \in LivePanes(World)
        /\ forLeaf(World, oldLeaf) # NoPopover
        /\ \E first \in (IF firsts = {} THEN {NoLeaf} ELSE firsts) :
              Apply(dockPopoverToWorkspace(World, oldLeaf, first))
        /\ UNCHANGED notPopover

\* The user closes a pane that is in a popover: the pane is detached, and if
\* it was active no pane is.
ClosePane(l) ==
    /\ l \in LivePanes(World)
    /\ forLeaf(World, l) # NoPopover
    /\ LET w == removeChild([World EXCEPT !.leaves[l].disposed = TRUE], l) IN
       Apply(IF activeLeaf = l THEN setActiveLeaf(w, NoLeaf) ELSE w)
    /\ UNCHANGED notPopover

\* The user clicks into a pane of the main area or of a popover.
ClickPane(l) ==
    /\ l \in LivePanes(World)
    /\ l # activeLeaf
    /\ l \in RootPanes(World) \/ forLeaf(World, l) # NoPopover
    /\ Apply(setActiveLeaf(World, l))
    /\ UNCHANGED notPopover

\* Two panes in the main area, empty sidebars, no popover.
InitPopover ==
    /\ persisted = NoData
    /\ settings = loadSettings(DEFAULT_SETTINGS, NoData).settings
    /\ hovers = <<>>
    /\ timers = {}
    /\ InitPopovers
    /\ currentSidebarLeaf = NoLeaf
    /\ leaves = InitialLeaves({})
    /\ activeLeaf = <<"main", 1>>
    /\ opens = <<>>
    /\ defaultSettings = DEFAULT_SETTINGS
    /\ windows = [w \in Windows |-> NoInteractor]

NextPopover ==
    \/ OpenNewPopover
    \/ \E l \in LeafIds : ConvertLeafToPopover(l)
    \/ \E p \in 1..Len(popovers) : ShowPopover(p)
    \/ \E l \in LeafIds : DockPopoverToWorkspace(l)
    \/ \E l \in LeafIds : ClosePane(l)
    \/ \E l \in LeafIds : ClickPane(l)

SpecPopover == InitPopover /\ [][NextPopover]_vars

(* ------------------- pinning and closing popovers -------------------- *)

\* The floating handler of a hover: a popover that is not pinned, with a
\* pane of its own.
FloatingHover ==
    LET p == Len(popovers) + 1 IN
    /\ Len(popovers) < MaxPopovers
    /\ Apply(attachLeaf(NewHoverEditor(World, "hover", NoCallback), p))
    /\ UNCHANGED notPopover

\* The pointer leaves popover p: a popover that is not pinned starts its
\* close timer; a pinned one does nothing.
PointerLeave(p) ==
    /\ popovers[p].state # "Destroyed"
    /\ ~popovers[p].closeTimer
    /\ Apply(IF popovers[p].pinned THEN World
             ELSE [World EXCEPT !.popovers[p].closeTimer = TRUE])
    /\ UNCHANGED notPopover

\* The pointer enters popover p.
PointerEnter(p) ==
    /\ popovers[p].state # "Destroyed"
    /\ Apply(activate(World, p))
    /\ UNCHANGED notPopover

\* The close timer of popover p expires: a popover that has been pinned in
\* the meantime stays, any other is destroyed.
closeTimerExpires(w, p) ==
    IF w.popovers[p].pinned
    THEN [w EXCEPT !.popovers[p].closeTimer = FALSE]
    ELSE hide([w EXCEPT !.popovers[p].closeTimer = FALSE], p, "timer")

CloseTimerExpires(p) ==
    /\ popovers[p].closeTimer
    /\ Apply(closeTimerExpires(World, p))
    /\ UNCHANGED notPopover

\* The user clicks the pin of popover p.
TogglePin(p) ==
    /\ popovers[p].state # "Destroyed"
    /\ Apply([togglePin(World, p, ~popovers[p].pinned) EXCEPT
                  !.popovers[p].unpinned = popovers[p].pinned])
    /\ UNCHANGED notPopover

\* The patched onDragLeaf: the popover of the pane, if it is in one, is
\* pinned before the host starts the drag.
onDragLeaf(w, l) ==
    LET hoverPopover == forLeaf(w, l) IN
    IF hoverPopover = NoPopover THEN w
    ELSE [togglePin(w, hoverPopover, TRUE) EXCEPT
              !.popovers[hoverPopover].dragged = TRUE,
              !.popovers[hoverPopover].unpinned = FALSE]

DragLeaf(l) ==
    /\ l \in LivePanes(World)
    /\ Apply(onDragLeaf(World, l))
    /\ UNCHANGED notPopover

\* hide() is called on popover p, destroyed or not, by its close button or
\* by whatever still holds it.
HidePopover(p) ==
    /\ Apply(hide(World, p, "explicit"))
    /\ UNCHANGED notPopover

\* onunload: every popover that is not destroyed is hidden.
OnunloadPopovers ==
    /\ ActivePopovers(World) # {}
    /\ Apply(hideEach(World, ActivePopovers(World), "unload"))
    /\ UNCHANGED notPopover

\* popovers are made, pinned, dragged, left and entered, and closed by
\* their timers
NextPin ==
    \/ OpenNewPopover
    \/ FloatingHover
    \/ \E p \in 1..Len(popovers) : PointerLeave(p)
    \/ \E p \in 1..Len(popovers) : PointerEnter(p)
    \/ \E p \in 1..Len(popovers) : CloseTimerExpires(p)
    \/ \E p \in 1..Len(popovers) : TogglePin(p)
    \/ \E l \in LeafIds : DragLeaf(l)

SpecPin == InitPopover /\ [][NextPin]_vars

\* popovers are made, shown, closed by their timers, hidden and unloaded
NextHide ==
    \/ OpenNewPopover
    \/ FloatingHover
    \/ \E p \in 1..Len(popovers) : ShowPopover(p)
    \/ \E p \in 1..Len(popovers) : PointerLeave(p)
    \/ \E p \in 1..Len(popovers) : CloseTimerExpires(p)
    \/ \E p \in 1..Len(popovers) : HidePopover(p)
    \/ OnunloadPopovers

SpecHide == InitPopover /\ [][NextHide]_vars

(* --------------------------- layout changes -------------------------- *)

\* The patched changeLayout up to its await: layoutChanging is set and the
\* host's changeLayout is in progress.
ChangeLayoutStart ==
    /\ layout.calls < MaxCalls
    /\ layout' = [layout EXCEPT !.changing = TRUE, !.calls = @ + 1]
    /\ UNCHANGED <<settings, hoverVars, sidebarVars, lifeVars, popovers,
                   activePopover, adapterRefs>>

\* The host's changeLayout of one call in progress settles or throws: the
\* finally clause clears layoutChanging.
ChangeLayoutEnd(threw) ==
    /\ layout.calls > 0
    /\ layout' = [layout EXCEPT !.changing = FALSE, !.calls = @ - 1,
                                !.threw = threw]
    /\ UNCHANGED <<settings, hoverVars, sidebarVars, lifeVars, popovers,
                   activePopover, adapterRefs>>

\* The panes the patched iterateLeaves(rootSplit, cb) visits when cb returns
\* nothing: those of the main area, and unless layoutChanging is set those
\* of the popovers.
iterateLeaves(w, layoutChanging) ==
    RootPanes(w) \cup
        (IF layoutChanging THEN {}
         ELSE UNION {PanesOf(w, p) : p \in ActivePopovers(w)})

\* Somebody iterates the panes of the workspace.
IterateLeaves ==
    /\ layout' = [layout EXCEPT !.visited = iterateLeaves(World, layout.changing)]
    /\ UNCHANGED <<settings, hoverVars, sidebarVars, lifeVars, popovers,
                   activePopover, adapterRefs>>

NextLayout ==
    \/ OpenNewPopover
    \/ \E p \in 1..Len(popovers) : ShowPopover(p)
    \/ \E l \in LeafIds : ClosePane(l)
    \/ ChangeLayoutStart
    \/ \E threw \in BOOLEAN : ChangeLayoutEnd(threw)
    \/ IterateLeaves

SpecLayout == InitPopover /\ [][NextLayout]_vars

(* ------------------ sidebar opens for different files ---------------- *)

\* What sidebar-mode hovers open here: a heading of one note and a heading
\* of another.
OverlapLinks ==
    { [file |-> "a.md", linkText |-> <<"a", "#", "a">>],
      [file |-> "d/c.md", linkText |-> <<"c", "#", "a">>] }

\* openFileInSidebar calls for either file, each going on at its await and
\* at its timer in any order.
NextOverlap ==
    \/ \E k \in OverlapLinks : OpenFileInSidebar(k.file, k.linkText, NoState)
    \/ \E i \in 1..Len(opens) : LoadDone(i)
    \/ \E i \in 1..Len(opens) : ApplyEphemeral(i)
    \/ \E l \in SideLeaves(settings.sidebarPosition) : DisposeLeaf(l)

SpecOverlap == InitPopover /\ [][NextOverlap]_vars

(* ---------------- settings changed under a pending hover ------------- *)

\* Settings tab, one of the five mode dropdowns: settings[key] = value, then
\* saveSettings().
SetMode(key, value) ==
    /\ value # settings[key]
    /\ settings' = [settings EXCEPT ![key] = value]
    /\ persisted' = saveSettings(settings')
    /\ UNCHANGED <<hovers, timers, sidebarVars, defaultSettings, windows, popVars>>

\* One hover, and the settings tab in use while its timer is pending.
NextRetune ==
    \/ hovers = <<>> /\ Hover
    \/ Fire
    \/ Tick
    \/ ChangeDelay
    \/ \E key \in ModeKeys, value \in Modes : SetMode(key, value)

SpecRetune == Init /\ [][NextRetune]_vars

(* --------------------------- hovers on embeds ------------------------ *)

\* The mouseover listener registerDomEvents puts on loaded embeds: unless
\* hoverEmbeds is native, hover-link is triggered with the src attribute of
\* the element as link text, and the host hands the event to the patched
\* onLinkHover.  The src of an embed is its link text without the "!".
EmbedMouseover(targetEl) ==
    /\ Len(hovers) < MaxHovers
    /\ IF settings.hoverEmbeds # "native"
       THEN PatchedOnLinkHover(targetEl, LinkTextOf(targetEl), SourcePathOf(targetEl))
       ELSE UNCHANGED <<settings, hovers, timers>>
    /\ UNCHANGED <<sidebarVars, lifeVars, popVars>>

\* hovers on embeds only, under settings that stay as loaded
NextEmbed ==
    \/ \E t \in Targets : EmbedMouseover(t)
    \/ Fire
    \/ Tick

SpecEmbed == Init /\ [][NextEmbed]_vars

(* ---------------------- settings read from disk ----------------------- *)

ViewModes == {"source", "preview", "match"}

\* What data.json can hold when it was written by hand or by another
\* version: any string for the mode of regular links and of headings and for
\* the default view mode, "popup" and "reading" standing for the strings
\* the plugin does not know.
StoredRecords ==
    [regularLinks : Modes \cup {"popup"}, headings : Modes \cup {"popup"},
     defaultMode : ViewModes \cup {"reading"}, triggerDelay : TriggerDelays]

InitStored ==
    /\ \E data \in StoredRecords :
            /\ persisted = data
            /\ settings = loadSettings(DEFAULT_SETTINGS, data).settings
    /\ hovers = <<>>
    /\ timers = {}
    /\ InitHost

NextStored == Hover \/ Fire \/ Tick \/ SidebarOpen

SpecStored == InitStored /\ [][NextStored]_vars

(* ------------------------------ properties ----------------------------- *)

FootnoteSigil == <<"#", "[", "^">>

BlockSigil == <<"#", "^">>

EmbedMarker == <<"!">>

SubpathOf(h) == parseLinktext(h.linkText).subpath

\* the file the link of hover h resolves to, from the file it was hovered in
TargetFileOf(h) == getFirstLinkpathDest(parseLinktext(h.linkText).path, h.path)

HoverIds == 1..Len(hovers)

\* C1: a hover whose subpath starts with the footnote sigil "#[^" is
\* classified Footnote and handled in the mode settings.footnotes, whatever
\* follows the sigil and whether or not the link text begins with "!".
C1_FootnoteSigilIsFootnote ==
    \A i \in HoverIds :
        startsWith(SubpathOf(hovers[i]), FootnoteSigil)
            => /\ hovers[i].kind = "footnotes"
               /\ hovers[i].mode = settings.footnotes

C1_Witness ==
    \E i \in HoverIds :
        /\ startsWith(hovers[i].linkText, EmbedMarker)
        /\ startsWith(SubpathOf(hovers[i]), FootnoteSigil)
        /\ hovers[i].kind = "footnotes"
        /\ hovers[i].mode # settings.hoverEmbeds

\* C2: a hover whose subpath starts with the block sigil "#^" and not with
\* the footnote sigil is classified Block and handled in the mode
\* settings.blocks.
C2_BlockSigilIsBlock ==
    \A i \in HoverIds :
        ( /\ startsWith(SubpathOf(hovers[i]), BlockSigil)
          /\ ~startsWith(SubpathOf(hovers[i]), FootnoteSigil) )
            => /\ hovers[i].kind = "blocks"
               /\ hovers[i].mode = settings.blocks

C2_Witness ==
    \E i \in HoverIds :
        /\ startsWith(SubpathOf(hovers[i]), BlockSigil)
        /\ Len(SubpathOf(hovers[i])) > Len(BlockSigil)
        /\ hovers[i].kind = "blocks"
        /\ hovers[i].mode # settings.headings

\* C3: a hover whose subpath is not empty and starts with neither sigil is
\* classified Heading and handled in the mode settings.headings.
C3_OtherSubpathIsHeading ==
    \A i \in HoverIds :
        ( /\ SubpathOf(hovers[i]) # <<>>
          /\ ~startsWith(SubpathOf(hovers[i]), FootnoteSigil)
          /\ ~startsWith(SubpathOf(hovers[i]), BlockSigil) )
            => /\ hovers[i].kind = "headings"
               /\ hovers[i].mode = settings.headings

C3_Witness ==
    \E i \in HoverIds :
        /\ SubpathOf(hovers[i]) # <<>>
        /\ ~startsWith(SubpathOf(hovers[i]), FootnoteSigil)
        /\ ~startsWith(SubpathOf(hovers[i]), BlockSigil)
        /\ startsWith(hovers[i].linkText, EmbedMarker)
        /\ hovers[i].kind = "headings"
        /\ hovers[i].mode # settings.hoverEmbeds

\* C4: a hover with an empty subpath is classified Embed (mode
\* settings.hoverEmbeds) when its link text begins with the embed marker and
\* Regular (mode settings.regularLinks) otherwise; every hover has exactly
\* one of the five classifications and the mode configured for it.
C4_EmptySubpathEmbedOrRegular ==
    \A i \in HoverIds :
        /\ hovers[i].kind \in ModeKeys
        /\ hovers[i].mode = settings[hovers[i].kind]
        /\ SubpathOf(hovers[i]) = <<>>
            => IF startsWith(hovers[i].linkText, EmbedMarker)
               THEN hovers[i].kind = "hoverEmbeds"
               ELSE hovers[i].kind = "regularLinks"

C4_Witness ==
    \E i \in HoverIds :
        /\ SubpathOf(hovers[i]) = <<>>
        /\ startsWith(hovers[i].linkText, EmbedMarker)
        /\ Len(hovers[i].linkText) > Len(EmbedMarker)
        /\ hovers[i].kind = "hoverEmbeds"
        /\ hovers[i].mode # settings.regularLinks

Outcomes == {"old", "openFileInSidebar", "onLinkHover"}

CallsOf(i, fn) == {k \in 1..Len(hovers[i].calls) : hovers[i].calls[k].fn = fn}

\* C5: a hover resolved to mode Native has called the host's original
\* onLinkHover with its own arguments by the time the patched function
\* returns; it has no timer, and it never calls openFileInSidebar or the
\* floating handler.
C5_NativeIsPassThrough ==
    \A i \in HoverIds :
        hovers[i].mode = "native"
            => /\ hovers[i].calls =
                     <<OldCall(hovers[i].targetEl, hovers[i].linkText, hovers[i].path)>>
               /\ ~Pending(i)
               /\ ~hovers[i].ran

C5_Witness ==
    \E i \in HoverIds :
        /\ hovers[i].mode = "native"
        /\ settings.triggerDelay > 0
        /\ TargetFileOf(hovers[i]) # NoFile
        /\ CallsOf(i, "old") # {}

\* C6: for a hover resolved to Floating or Sidebar, handleHover has run only
\* if the trigger delay read at hover time has passed since the hover; with
\* a delay of 0 it has run when the patched function returns, and with a
\* positive delay it waits on a timer until then.
C6_HandleHoverAfterTriggerDelay ==
    \A i \in HoverIds :
        hovers[i].mode # "native"
            => /\ hovers[i].ran => hovers[i].age >= hovers[i].delay
               /\ hovers[i].delay = 0 => hovers[i].ran /\ ~Pending(i)
               /\ (hovers[i].delay > 0 /\ ~hovers[i].ran) => Pending(i)
               /\ ~hovers[i].ran => hovers[i].calls = <<>>

C6_Witness ==
    \E i \in HoverIds :
        /\ hovers[i].mode # "native"
        /\ hovers[i].ran
        /\ hovers[i].delay > 1
        /\ hovers[i].age >= hovers[i].delay
        /\ settings.triggerDelay # hovers[i].delay

\* C7: when handleHover has run for a non-native hover whose link path
\* resolves to no file from the file it was hovered in, the host's original
\* onLinkHover has been called with the hover's arguments, and neither the
\* sidebar nor the floating handler has.
C7_UnresolvedFallsBackToNative ==
    \A i \in HoverIds :
        ( /\ hovers[i].mode # "native"
          /\ hovers[i].ran
          /\ TargetFileOf(hovers[i]) = NoFile )
            => hovers[i].calls =
                  <<OldCall(hovers[i].targetEl, hovers[i].linkText, hovers[i].path)>>

C7_Witness ==
    \E i \in HoverIds :
        /\ hovers[i].mode # "native"
        /\ hovers[i].ran
        /\ hovers[i].delay > 0
        /\ TargetFileOf(hovers[i]) = NoFile
        /\ CallsOf(i, "old") # {}

\* C8: when handleHover has run and the target file resolves, a Sidebar
\* hover has called openFileInSidebar and nothing else, a Floating hover the
\* floating handler and nothing else.
C8_SidebarOrFloatingExclusive ==
    \A i \in HoverIds :
        ( /\ hovers[i].ran
          /\ TargetFileOf(hovers[i]) # NoFile )
            => /\ hovers[i].mode = "sidebar" =>
                    hovers[i].calls =
                       <<SidebarCall(TargetFileOf(hovers[i]), hovers[i].linkText)>>
               /\ hovers[i].mode = "floating" =>
                    hovers[i].calls =
                       <<FloatingCall(hovers[i].targetEl, hovers[i].linkText,
                                      hovers[i].path)>>

C8_Witness ==
    \E i, j \in HoverIds :
        /\ hovers[i].ran /\ hovers[i].mode = "sidebar"
        /\ CallsOf(i, "openFileInSidebar") # {}
        /\ hovers[i].path = "d/x"
        /\ hovers[j].ran /\ hovers[j].mode = "floating"
        /\ CallsOf(j, "onLinkHover") # {}

Consumed(i) ==
    /\ i \in HoverIds
    /\ Len(hovers[i].calls) = 1
    /\ hovers[i].calls[1].fn \in Outcomes

\* C9: every hover given to the patched onLinkHover ends in exactly one of
\* the three outcomes: it never has more than one, it has one as soon as it
\* is native or handleHover has run, and it has one eventually.
C9_HoverConsumedExactlyOnce ==
    /\ [](\A i \in HoverIds :
            /\ Len(hovers[i].calls) <= 1
            /\ (hovers[i].ran \/ hovers[i].mode = "native") => Consumed(i))
    /\ \A i \in 1..MaxHovers : (i \in HoverIds) ~> Consumed(i)

C9_Witness ==
    /\ Len(hovers) = MaxHovers
    /\ \A i \in HoverIds : Consumed(i)
    /\ \E i, j \in HoverIds :
          /\ hovers[i].calls[1].fn # hovers[j].calls[1].fn
          /\ hovers[i].delay > 0

Ran(i) == i \in HoverIds /\ hovers[i].ran

\* C10: a pending trigger-delay timer is never cancelled or replaced: it
\* stays pending, through later hovers too, until it fires and its own
\* hover's handleHover runs; and every pending timer does fire.
C10_TimersIndependent ==
    /\ [][\A t \in timers :
            \/ \E u \in timers' : u.hover = t.hover
            \/ hovers'[t.hover].ran /\ ~hovers[t.hover].ran]_vars
    /\ \A i \in 1..MaxHovers :
          (i \in HoverIds /\ Pending(i)) ~> (Ran(i) /\ ~Pending(i))

C10_Witness ==
    \E t, u \in timers :
        /\ t.hover < u.hover
        /\ hovers[t.hover].targetEl # hovers[u.hover].targetEl
        /\ t.remaining < u.remaining

\* C11: two hovers on the same target element within the trigger delay of
\* each other leave one scheduled open action: no two pending timers belong
\* to hovers of one target.
C11_DebounceByTarget ==
    \A t, u \in timers :
        hovers[t.hover].targetEl = hovers[u.hover].targetEl => t.hover = u.hover

\* the call that a step starts, if it starts one
Starts == Len(opens') = Len(opens) + 1

\* the panes a step creates
Created == {l \in LeafIds : ~leaves[l].exists /\ leaves'[l].exists}

LocKeys == {"line", "startLoc", "endLoc"}

\* C13: the ephemeral state of a call whose link text has a subpath has the
\* subpath of the link, "#" included, as its hint, whether or not the file
\* has a cache and the subpath resolves; it has line, start and end
\* location if the subpath resolves in the file and none of them if not.
C13_AnchorHintAlways ==
    \A i \in 1..Len(opens) :
        LET c == opens[i]
            sub == parseLinktext(c.linkText).subpath
            resolves == HasCache(c.file) /\ resolveSubpath(c.file, sub) # NoLoc
        IN  sub # <<>> =>
               /\ c.eState.subpath = sub
               /\ IF resolves THEN LocKeys \subseteq DOMAIN c.eState
                              ELSE LocKeys \cap DOMAIN c.eState = {}

\* C14: a step that starts openFileInSidebar fixes the call's view mode:
\* defaultMode if that is source or preview; for match the mode of the pane
\* that is active at that step, preview if no pane is active or the active
\* pane has no mode.  The mode of a call never changes afterwards and is the
\* mode the pane is loaded in.
C14_ViewModeAtCallTime ==
    [][ /\ Starts =>
             LET c == opens'[Len(opens')]
                 defaultMode == settings.defaultMode
             IN  IF defaultMode \in {"source", "preview"}
                 THEN c.mode = defaultMode
                 ELSE /\ defaultMode = "match"
                      /\ c.mode = IF activeLeaf = NoLeaf THEN "preview"
                                  ELSE IF leaves[activeLeaf].mode = NoMode
                                  THEN "preview"
                                  ELSE leaves[activeLeaf].mode
        /\ \A i \in 1..Len(opens) :
             /\ opens'[i].mode = opens[i].mode
             /\ (opens[i].awaiting /\ ~opens'[i].awaiting
                    /\ ~leaves[opens[i].leaf].disposed)
                  => leaves'[opens[i].leaf].mode = opens[i].mode
      ]_vars

\* defaultMode is match; the first call was made with the editor (source
\* mode) active and the second with the view without mode active, and the
\* editor is the active pane again while both loads are in flight.
C14_Witness ==
    /\ settings.defaultMode = "match"
    /\ Len(opens) >= 2
    /\ opens[1].mode = "source" /\ opens[1].awaiting
    /\ opens[2].mode = "preview" /\ opens[2].awaiting
    /\ activeLeaf = <<"main", 1>>

\* C15: the ephemeral state of a call is applied to the pane only by that
\* call's timer and only once the call's setViewState has completed: a step
\* that writes the ephemeral state of a pane belongs to a call on that pane
\* whose load is over before the step, and no call whose load is in flight
\* has applied its state.
C15_EphemeralAfterLoad ==
    /\ [][ \A l \in LeafIds :
             leaves'[l].eState # leaves[l].eState =>
                \E i \in 1..Len(opens) :
                    /\ opens[i].leaf = l
                    /\ ~opens[i].awaiting
                    /\ ~opens[i].applied /\ opens'[i].applied
                    /\ leaves'[l].eState = opens[i].eState
          ]_vars
    /\ [](\A i \in 1..Len(opens) : opens[i].applied => ~opens[i].awaiting)

\* The state of the first call has been applied to the pane, after its load,
\* while the load of a second call on the same pane is in flight.
C15_Witness ==
    /\ Len(opens) >= 2
    /\ opens[1].applied /\ ~opens[1].awaiting
    /\ leaves[opens[1].leaf].eState = opens[1].eState
    /\ leaves[opens[1].leaf].file = opens[1].file
    /\ opens[2].leaf = opens[1].leaf /\ opens[2].awaiting

\* C16: a call that is past its load has called revealLeaf exactly if
\* sidebarAutoReveal is set and setActiveLeaf exactly if sidebarAutoFocus is
\* set, whatever the other setting is; a call that is still loading has
\* called neither.
C16_RevealFocusIndependent ==
    \A i \in 1..Len(opens) :
        IF opens[i].awaiting
        THEN ~opens[i].revealCalled /\ ~opens[i].focusCalled
        ELSE /\ opens[i].revealCalled = settings.sidebarAutoReveal
             /\ opens[i].focusCalled = settings.sidebarAutoFocus

\* Focus without reveal: a call has made the pane active and has not
\* revealed it.
C16_Witness ==
    /\ ~settings.sidebarAutoReveal /\ settings.sidebarAutoFocus
    /\ \E i \in 1..Len(opens) :
          /\ opens[i].focusCalled /\ ~opens[i].revealCalled
          /\ ~leaves[opens[i].leaf].revealed
          /\ activeLeaf = opens[i].leaf

\* C17: with sidebarAutoReveal set and sidebarAutoFocus not set, no step of
\* openFileInSidebar (the call, the completion of its load, its timer)
\* changes the active pane, and the completion of the load on a pane that
\* is open reveals that pane.
C17_RevealKeepsActivePane ==
    [][ (settings.sidebarAutoReveal /\ ~settings.sidebarAutoFocus
            /\ opens' # opens) =>
           /\ activeLeaf' = activeLeaf
           /\ \A i \in 1..Len(opens) :
                 (opens[i].awaiting /\ ~opens'[i].awaiting
                     /\ ~leaves[opens[i].leaf].disposed)
                 => leaves'[opens[i].leaf].revealed
      ]_vars

\* no step of openFileInSidebar calls revealLeaf or setActiveLeaf on a pane
\* that is disposed
NoCallOnDisposed == \A i \in 1..Len(opens) : opens[i].onDisposed = {}

\* C18: a pane disposed during the load or during the 50 ms delay of a call
\* receives no further call of it: its ephemeral state is not written, and
\* revealLeaf and setActiveLeaf are not called on it.
C18_DisposedPaneSkipped ==
    /\ [][ \A l \in LeafIds :
             leaves[l].disposed => leaves'[l].eState = leaves[l].eState ]_vars
    /\ []NoCallOnDisposed

\* C21: no hover is dispatched on a mode other than native, floating and
\* sidebar, and no openFileInSidebar call loads a pane in a view mode other
\* than source and preview, whatever strings the stored settings hold.
C21_EnumeratedValuesChecked ==
    /\ \A i \in 1..Len(hovers) : hovers[i].mode \in Modes
    /\ \A i \in 1..Len(opens) : opens[i].mode \in {"source", "preview"}

\* what a pane shows: its file, its view mode and its ephemeral state
Content(leaf) == <<leaf.file, leaf.mode, leaf.eState>>

\* the step shows popover p and runs the callback of convertLeafToPopover
\* for a pane that still has a parent
ConvertsNow(p) ==
    /\ popovers[p].showPending /\ ~popovers'[p].showPending
    /\ popovers[p].state # "Destroyed"
    /\ popovers[p].onShow.kind = "convert"
    /\ leaves[popovers[p].onShow.leaf].parent # NoParent

\* C22: docking a pane and converting it to a popover again gives a popover
\* that holds that very pane and nothing else, with the content it had: no
\* step that docks a pane changes what the pane shows, and the step that
\* runs the conversion of a pane (docked before or not) leaves the pane, with
\* its content unchanged, as the only child of the new popover.
C22_DockConvertRoundTrip ==
    [][ /\ \A l \in LeafIds :
             leaves'[l].docked => Content(leaves'[l]) = Content(leaves[l])
        /\ \A p \in 1..Len(popovers) :
             ConvertsNow(p) =>
                LET l == popovers[p].onShow.leaf IN
                /\ leaves'[l].parent = SplitOf(p)
                /\ \A k \in LeafIds : leaves'[k].parent = SplitOf(p) => k = l
                /\ Content(leaves'[l]) = Content(leaves[l])
                /\ ~leaves'[l].disposed
                /\ popovers'[p].state = "Shown"
      ]_vars

\* The editor pane was converted to a popover, docked, and converted again:
\* it is the pane of the second popover and shows the file it showed.
C22_Witness ==
    /\ Len(popovers) = 2
    /\ popovers[2].onShow = ConvertCallback(<<"main", 1>>)
    /\ ~popovers[2].showPending
    /\ leaves[<<"main", 1>>].docked
    /\ leaves[<<"main", 1>>].parent = SplitOf(2)
    /\ Content(leaves[<<"main", 1>>]) = <<"x", "source", <<>>>>
    /\ popovers[1].state = "Destroyed" /\ popovers[2].state = "Shown"

\* C19: when removeDocument throws during the teardown of a window's
\* adapter, the error is logged and not propagated, the resize listener was
\* already removed when it was thrown, and the teardown has completed.
C19_TeardownSurvivesThrow ==
    \A w \in Windows :
        (windows[w] # NoInteractor /\ windows[w].thrown # NoError)
            => /\ windows[w].console = <<windows[w].thrown>>
               /\ windows[w].propagated = NoError
               /\ ~windows[w].listenerAtThrow
               /\ ~windows[w].resizeListener
               /\ windows[w].unloaded

C19_Witness ==
    \E w, v \in Windows :
        /\ windows[w] # NoInteractor /\ windows[w].thrown \in Errors
        /\ windows[w].unloaded /\ windows[w].document
        /\ windows[v] # NoInteractor /\ windows[v].thrown = NoError
        /\ windows[v].unloaded /\ ~windows[v].document

\* C23: a step of dockPopoverToWorkspace on a pane held by a popover leaves
\* the pane out of that popover's split and in the main area, not disposed
\* and with the content it had, and the pane is the active pane.
C23_DockPostconditions ==
    [][ \A l \in LeafIds :
           DockPopoverToWorkspace(l) =>
              /\ leaves'[l].parent # SplitOf(forLeaf(World, l))
              /\ leaves'[l].parent = Root
              /\ leaves'[l].exists /\ ~leaves'[l].disposed
              /\ Content(leaves'[l]) = Content(leaves[l])
              /\ activeLeaf' = l
      ]_vars

C23_Witness ==
    /\ Len(popovers) = 1
    /\ leaves[<<"pop", 1>>].docked
    /\ leaves[<<"pop", 1>>].parent = Root
    /\ activeLeaf = <<"pop", 1>>
    /\ popovers[1].state = "Destroyed"

\* C25: no popover is Shown without an open pane in its split; a popover
\* whose last pane was docked or closed is destroyed.
C25_NeverShownWithoutPane ==
    \A p \in 1..Len(popovers) :
       /\ popovers[p].state = "Shown" =>
             \E l \in PanesOf(World, p) : leaves[l].exists /\ ~leaves[l].disposed
       /\ PanesOf(World, p) = {} => popovers[p].state = "Destroyed"

C25_Witness ==
    /\ Len(popovers) = 2
    /\ popovers[1].closedBy = "empty" /\ popovers[1].state = "Destroyed"
    /\ leaves[<<"pop", 1>>].disposed
    /\ popovers[2].closedBy = "empty" /\ popovers[2].state = "Destroyed"
    /\ leaves[<<"pop", 2>>].docked

\* C29: activePopover is the popover that holds the active pane, none when
\* the active pane is in no popover or there is no active pane, and the
\* is-active marker is on no popover but activePopover.
C29_ActivePopoverFollowsActiveLeaf ==
    /\ activePopover = forLeaf(World, activeLeaf)
    /\ \A p \in 1..Len(popovers) : popovers[p].isActive => p = activePopover

C29_Witness ==
    /\ Len(popovers) = 2
    /\ popovers[1].onShow = FocusCallback /\ ~popovers[1].showPending
    /\ popovers[1].state = "Shown" /\ ~popovers[1].isActive
    /\ activeLeaf = <<"pop", 2>> /\ activePopover = 2 /\ popovers[2].isActive

\* C24: hide() on a popover that is destroyed already changes nothing: the
\* panes, the active pane, the active popover and the count of adapter
\* subscriptions stay, and so does every popover (but for the record that
\* the call was made).
C24_HideIdempotent ==
    [][ \A p \in 1..Len(popovers) :
           (HidePopover(p) /\ popovers[p].state = "Destroyed") =>
              /\ leaves' = leaves
              /\ activeLeaf' = activeLeaf
              /\ activePopover' = activePopover
              /\ adapterRefs' = adapterRefs
              /\ popovers' = [popovers EXCEPT ![p].hiddenAgain = TRUE]
      ]_vars

C24_Witness ==
    /\ Len(popovers) = 2
    /\ popovers[1].closedBy = "timer" /\ popovers[1].hiddenAgain
    /\ popovers[2].closedBy = "unload" /\ popovers[2].hiddenAgain
    /\ adapterRefs = 0

\* C26 as stated: a popover made by spawnPopover is pinned when its pane is
\* attached, and neither such a popover nor one whose pane was dragged is
\* ever closed by the close timer.
C26_SpawnedNeverClosedByTimer ==
    \A p \in 1..Len(popovers) :
       /\ popovers[p].via = "spawn" => popovers[p].pinnedAtAttach
       /\ (popovers[p].via = "spawn" \/ popovers[p].dragged) =>
             popovers[p].closedBy # "timer"

\* C26, amended: a popover made by spawnPopover is pinned when its pane is
\* attached, a popover whose pane is dragged is pinned, either stays pinned
\* until the user takes the pin off, and the close timer closes only
\* popovers that are not pinned.
C26_PinnedUntilUnpinned ==
    \A p \in 1..Len(popovers) :
       /\ popovers[p].via = "spawn" => popovers[p].pinnedAtAttach
       /\ (popovers[p].via = "spawn" \/ popovers[p].dragged) =>
             (popovers[p].pinned \/ popovers[p].unpinned)
       /\ popovers[p].closedBy = "timer" => ~popovers[p].pinned

C26_Witness ==
    /\ Len(popovers) = 2
    /\ popovers[1].via = "spawn" /\ popovers[1].pinnedAtAttach
    /\ popovers[1].unpinned /\ popovers[1].closedBy = "timer"
    /\ popovers[2].via = "hover" /\ popovers[2].dragged /\ popovers[2].pinned
    /\ popovers[2].state = "Shown"

\* C27: an iteration of the workspace's panes made while a changeLayout call
\* is in progress visits no pane of a popover, and one made while none is in
\* progress visits every pane of every popover.
C27_NoPopoverPanesWhileChanging ==
    [][ IterateLeaves =>
           LET inPopovers == UNION {PanesOf(World, p) : p \in ActivePopovers(World)}
           IN  /\ layout.calls > 0 => layout'.visited \cap inPopovers = {}
               /\ layout.calls = 0 => inPopovers \subseteq layout'.visited
      ]_vars

\* C28: when the timer of an openFileInSidebar call applies its ephemeral
\* state, the pane shows the file of that call.
C28_EStateOnOwnContent ==
    [][ \A i \in 1..Len(opens) :
           (ApplyEphemeral(i) /\ ~leaves[opens[i].leaf].disposed) =>
              leaves[opens[i].leaf].file = opens[i].file
      ]_vars

\* C30: a hover takes its mode and its delay from the settings as they are
\* when it arrives; no later step changes them, and its timer runs the
\* handler of that mode when that delay has passed, whatever the settings
\* are by then.
C30_ModeFixedAtArrival ==
    [][ /\ Len(hovers') > Len(hovers) =>
              LET h == hovers'[Len(hovers')] IN
              /\ h.mode = ResolveMode(settings, h.linkText)
              /\ h.mode # "native" => h.delay = settings.triggerDelay
        /\ \A i \in 1..Len(hovers) :
              /\ hovers'[i].mode = hovers[i].mode
              /\ hovers'[i].delay = hovers[i].delay
              /\ (~hovers[i].ran /\ hovers'[i].ran) =>
                    /\ hovers[i].age = hovers[i].delay
                    /\ hovers'[i].calls =
                          handleHover(hovers[i].targetEl, hovers[i].linkText,
                                      hovers[i].path, hovers[i].mode)
      ]_vars

C30_Witness ==
    /\ Len(hovers) = 1
    /\ hovers[1].ran /\ hovers[1].delay = 2 /\ hovers[1].age = 2
    /\ settings.triggerDelay = 0
    /\ hovers[1].mode = "sidebar"
    /\ ResolveMode(settings, hovers[1].linkText) = "floating"
    /\ hovers[1].calls = <<SidebarCall("a.md", hovers[1].linkText)>>

\* C31: a hover on a loaded embed is handed on only when hoverEmbeds is not
\* native, and the hover it is handed on as has the mode of hoverEmbeds.
C31_EmbedHoverInEmbedMode ==
    [][ \A t \in Targets :
           (EmbedMouseover(t) /\ Len(hovers') > Len(hovers)) =>
              /\ settings.hoverEmbeds # "native"
              /\ hovers'[Len(hovers')].mode = settings.hoverEmbeds
      ]_vars

\* C20: once loadSettings has run, every key missing from the persisted
\* record has the value of the default table and every key present has the
\* persisted value; the default table is as it was.
C20_LoadSettingsDefaults ==
    /\ defaultSettings = DEFAULT_SETTINGS
    /\ settings # NoSettings =>
          /\ DOMAIN settings = SettingKeys \cup DOMAIN persisted
          /\ \A k \in DOMAIN settings :
                settings[k] = IF k \in DOMAIN persisted THEN persisted[k]
                              ELSE DEFAULT_SETTINGS[k]

C20_Witness ==
    /\ settings # NoSettings
    /\ "regularLinks" \in DOMAIN persisted
    /\ persisted.regularLinks # DEFAULT_SETTINGS.regularLinks
    /\ settings.regularLinks = persisted.regularLinks
    /\ "defaultMode" \notin DOMAIN persisted
    /\ settings.defaultMode = DEFAULT_SETTINGS.defaultMode

====
